---- MODULE Spec2Model ----
(***************************************************************************)
(* Request-handling core of the Global IT Zone backend: the users,         *)
(* products and bookings handlers of src/controllers, run against a        *)
(* document store.  Each handler is one action; the handlers whose         *)
(* interleaving matters are also given step by step (one action per        *)
(* awaited store call) in the concurrent specifications.                   *)
(***************************************************************************)
EXTENDS Integers, Sequences, FiniteSets, TLC

\* ------------------------------------------------------------------ bounds
MaxUsers == 4
MaxProducts == 2
MaxBookings == 2
MaxOps == 4
MaxUserOps == 2
MaxInFlight == 2
MaxFiles == 2
MaxFieldOps == 2
MaxPage == 3
MaxLimit == 2

\* ------------------------------------------------------------- value sets
NameMin == 2                \* body('name') isLength min
NameMax == 100              \* body('name') isLength max
DiscountMax == 100          \* body('discount') isFloat max
DefaultProductsLimit == 12  \* listProducts: limit = 12
DefaultUsersLimit == 10     \* getUsers: limit = 10
ProductsLimitMax == 100     \* query('limit') isInt max, products
UsersLimitMax == 50         \* query('limit') isInt max, users

Absent == "absent"          \* an undefined / missing request field
NoUser == 0                 \* a request that carries no (valid) token
BadId  == -1                \* an id string that is no ObjectId

Availabilities == {"Available", "Out of Stock", "Discontinued"}
Reasons == {Absent, "", "changed mind"}
Coupons == {"CPA", "CPB"}
CouponParams == {"cpa", "CPA", "cpb", "ZZZ"}

\* users, products, bookings: the three collections of the store, a document's
\*   id being its position; last: the latest response sent; now: requests
\*   handled so far; pending: requests suspended at an awaited store call;
\*   acks: per product, how many view and like requests were answered 200
VARIABLES users, products, bookings, last, now, pending, acks

vars == <<users, products, bookings, last, now, pending, acks>>

\* who may send a request: nobody's token, or the token of a stored user
Callers == {NoUser} \cup (1..Len(users))

\* ---------------------------------------------------------------- helpers
Resp(op, caller, target, code, kind, result) ==
    [op |-> op, caller |-> caller, target |-> target,
     code |-> code, kind |-> kind, result |-> result]

Tick == /\ now < MaxOps
        /\ now' = now + 1

TickUser == /\ now < MaxUserOps
            /\ now' = now + 1

Range(seq) == {seq[i] : i \in 1..Len(seq)}

\* Mongoose findById: a malformed id throws CastError, an unknown one gives null
findById(coll, id) ==
    IF id = BadId THEN "CastError"
    ELSE IF id \in 1..Len(coll) THEN "found" ELSE "null"

\* String.prototype.toUpperCase on the coupon parameters used here
toUpperCase(s) ==
    CASE s = "cpa" -> "CPA"
      [] s = "cpb" -> "CPB"
      [] OTHER -> s

\* JS truthiness of a request string field
Truthy(v) == v # Absent /\ v # ""

\* middleware/auth.js authenticateToken: the token resolves to an existing, active user
authenticateToken(caller) ==
    /\ caller \in 1..Len(users)
    /\ users[caller].isActive

\* middleware/auth.js requireAdmin
requireAdmin(caller) == users[caller].role = "admin"

\* ---------------------------------------------------------------- products
ProductIdInputs == {BadId} \cup (1..(MaxProducts + 1))

\* a string whose characters matter is the sequence of its characters
\* String.prototype.split(',')
RECURSIVE split(_)
split(s) ==
    IF \A i \in 1..Len(s) : s[i] # ","
    THEN <<s>>
    ELSE LET k == CHOOSE i \in 1..Len(s) : s[i] = "," /\ \A j \in 1..(i - 1) : s[j] # ","
         IN  <<SubSeq(s, 1, k - 1)>> \o split(SubSeq(s, k + 1, Len(s)))

\* String.prototype.trim
RECURSIVE trim(_)
trim(s) ==
    IF s # <<>> /\ Head(s) = " " THEN trim(Tail(s))
    ELSE IF s # <<>> /\ s[Len(s)] = " " THEN trim(SubSeq(s, 1, Len(s) - 1))
    ELSE s

\* String.prototype.toLowerCase on the letters used here
toLowerCase(s) == [i \in 1..Len(s) |-> IF s[i] = "B" THEN "b" ELSE s[i]]

\* Array.prototype.filter(Boolean) on a list of strings: the empty string is falsy
filterBoolean(list) == SelectSeq(list, LAMBDA e : e # <<>>)

\* an optional number of a body is <<>> when missing and <<n>> when sent
\* a features / tags / removePublicIds field as the body parser delivers it
Undefined == [shape |-> "undefined", value |-> <<>>]
AsArray(list) == [shape |-> "array", value |-> list]
AsString(s) == [shape |-> "string", value |-> s]

\* createProduct: features = [] by default, an array is taken as it is, anything
\* else is split, trimmed and filtered
createFeatures(f) ==
    IF f.shape = "undefined" THEN <<>>
    ELSE IF f.shape = "array" THEN f.value
    ELSE LET parts == split(f.value)
         IN  filterBoolean([i \in 1..Len(parts) |-> trim(parts[i])])

\* createProduct: tags likewise, lowercased when they arrive as a string
createTags(t) ==
    IF t.shape = "undefined" THEN <<>>
    ELSE IF t.shape = "array" THEN t.value
    ELSE LET parts == split(t.value)
         IN  filterBoolean([i \in 1..Len(parts) |-> toLowerCase(trim(parts[i]))])

\* updateProduct: a string is parsed, an array is left alone
updateFeatures(f) ==
    IF f.shape = "string"
    THEN LET parts == split(f.value)
         IN  AsArray(filterBoolean([i \in 1..Len(parts) |-> trim(parts[i])]))
    ELSE f

updateTags(t) ==
    IF t.shape = "string"
    THEN LET parts == split(t.value)
         IN  AsArray(filterBoolean([i \in 1..Len(parts) |-> toLowerCase(trim(parts[i]))]))
    ELSE t

\* n uploaded files as the upload middleware hands them over: the storage
\* service has stored each one under a name of its own (here the product it is
\* meant for and a running number) and gives its URL
UrlOf(publicId) == <<"url", publicId>>
Files(owner, from, n) ==
    [k \in 1..n |-> [path |-> UrlOf(<<owner, from + k>>), filename |-> <<owner, from + k>>]]

Categories == {"Laptops", "Audio"}

\* the route's validators of POST /api/products, for the fields kept here;
\* their verdict is what validationResult(req) would give
createValidators(body) ==
    /\ body.nameLen \in NameMin..NameMax
    /\ body.category \in Categories
    /\ body.availability \in Availabilities \cup {Absent}
    /\ body.discount = <<>> \/ body.discount[1] \in 0..DiscountMax

\* models/Product.js: the schema's enum and range rules, run by create and save
schemaAccepts(product) ==
    /\ product.category \in Categories
    /\ product.availability \in Availabilities
    /\ product.discount = <<>> \/ product.discount[1] \in 0..DiscountMax

\* a request body of POST /api/products that passes every validator
PlainCreate ==
    [nameLen |-> NameMin, category |-> "Laptops", availability |-> Absent,
     discount |-> <<>>, features |-> Undefined, tags |-> Undefined]

NewProduct(body, files, creator) ==
    [nameLen |-> body.nameLen,
     category |-> body.category,
     availability |-> IF Truthy(body.availability) THEN body.availability ELSE "Available",
     discount |-> body.discount,
     features |-> createFeatures(body.features),
     tags |-> createTags(body.tags),
     images |-> [k \in 1..Len(files) |-> files[k].path],
     imagePublicIds |-> [k \in 1..Len(files) |-> files[k].filename],
     isActive |-> TRUE, views |-> 0, likes |-> 0, createdBy |-> creator]

\* POST /api/products (admin): at least one image, then Product.create
createProduct(caller, body, files) ==
    /\ Tick
    /\ UNCHANGED <<users, bookings, pending>>
    /\ IF ~authenticateToken(caller)
       THEN /\ last' = Resp("createProduct", caller, 0, 401, "Unauthenticated", <<>>)
            /\ UNCHANGED <<products, acks>>
       ELSE IF ~requireAdmin(caller)
       THEN /\ last' = Resp("createProduct", caller, 0, 403, "Forbidden", <<>>)
            /\ UNCHANGED <<products, acks>>
       ELSE IF Len(files) = 0
       THEN /\ last' = Resp("createProduct", caller, 0, 400, "MissingImages", <<>>)
            /\ UNCHANGED <<products, acks>>
       ELSE IF ~schemaAccepts(NewProduct(body, files, caller))
       THEN /\ last' = Resp("createProduct", caller, 0, 500, "InternalError", <<>>)
            /\ UNCHANGED <<products, acks>>
       ELSE /\ Len(products) < MaxProducts
            /\ products' = Append(products, NewProduct(body, files, caller))
            /\ acks' = Append(acks, [views |-> 0, likes |-> 0])
            /\ last' = Resp("createProduct", caller, Len(products) + 1, 201, "Created", <<>>)

\* a request body of PUT /api/products/:id that carries nothing
PlainUpdate ==
    [availability |-> Absent, isActive |-> Absent, discount |-> <<>>,
     features |-> Undefined, tags |-> Undefined, removePublicIds |-> Undefined]

\* the image removals of updateProduct: only imagePublicIds is filtered
removeImages(product, body) ==
    IF body.removePublicIds.shape # "undefined"
    THEN [product EXCEPT !.imagePublicIds =
             SelectSeq(@, LAMBDA pid :
                 \A i \in 1..Len(body.removePublicIds.value) :
                     body.removePublicIds.value[i] # pid)]
    ELSE product

\* the new uploads of updateProduct: pushed onto both lists
pushUploads(product, files) ==
    [product EXCEPT
       !.images = @ \o [k \in 1..Len(files) |-> files[k].path],
       !.imagePublicIds = @ \o [k \in 1..Len(files) |-> files[k].filename]]

\* the mutable-field loop of updateProduct, for the fields kept in this model
assignMutable(product, body) ==
    [product EXCEPT
       !.availability = IF body.availability # Absent THEN body.availability ELSE @,
       !.discount = IF body.discount # <<>> THEN body.discount ELSE @,
       !.features = IF updateFeatures(body.features).shape # "undefined"
                    THEN updateFeatures(body.features).value ELSE @,
       !.tags = IF updateTags(body.tags).shape # "undefined"
                THEN updateTags(body.tags).value ELSE @,
       !.isActive = IF body.isActive # Absent THEN (body.isActive = "true") ELSE @]

ProductBodies ==
    {[PlainUpdate EXCEPT !.availability = a, !.isActive = i] :
        a \in Availabilities \cup {Absent}, i \in {Absent, "true", "false"}}

\* PUT /api/products/:id (admin)
updateProduct(caller, id, body, files) ==
    /\ Tick
    /\ UNCHANGED <<users, bookings, pending, acks>>
    /\ IF ~authenticateToken(caller)
       THEN /\ last' = Resp("updateProduct", caller, id, 401, "Unauthenticated", <<>>)
            /\ UNCHANGED products
       ELSE IF ~requireAdmin(caller)
       THEN /\ last' = Resp("updateProduct", caller, id, 403, "Forbidden", <<>>)
            /\ UNCHANGED products
       ELSE IF findById(products, id) = "CastError"
       THEN /\ last' = Resp("updateProduct", caller, id, 400, "InvalidId", <<>>)
            /\ UNCHANGED products
       ELSE IF findById(products, id) = "null"
       THEN /\ last' = Resp("updateProduct", caller, id, 404, "NotFound", <<>>)
            /\ UNCHANGED products
       ELSE LET p == assignMutable(pushUploads(removeImages(products[id], body), files), body)
            IN  IF ~schemaAccepts(p)
                THEN /\ last' = Resp("updateProduct", caller, id, 500, "InternalError", <<>>)
                     /\ UNCHANGED products
                ELSE /\ products' = [products EXCEPT ![id] = p]
                     /\ last' = Resp("updateProduct", caller, id, 200, "OK", <<>>)

\* DELETE /api/products/:id (admin): soft delete
deleteProduct(caller, id) ==
    /\ Tick
    /\ UNCHANGED <<users, bookings, pending, acks>>
    /\ IF ~authenticateToken(caller)
       THEN /\ last' = Resp("deleteProduct", caller, id, 401, "Unauthenticated", <<>>)
            /\ UNCHANGED products
       ELSE IF ~requireAdmin(caller)
       THEN /\ last' = Resp("deleteProduct", caller, id, 403, "Forbidden", <<>>)
            /\ UNCHANGED products
       ELSE IF findById(products, id) = "CastError"
       THEN /\ last' = Resp("deleteProduct", caller, id, 400, "InvalidId", <<>>)
            /\ UNCHANGED products
       ELSE IF findById(products, id) = "null"
       THEN /\ last' = Resp("deleteProduct", caller, id, 404, "NotFound", <<>>)
            /\ UNCHANGED products
       ELSE /\ products' = [products EXCEPT ![id] =
                               [@ EXCEPT !.isActive = FALSE, !.availability = "Discontinued"]]
            /\ last' = Resp("deleteProduct", caller, id, 200, "OK", <<>>)

\* ---------------------------------------------------------------- bookings
BookingIdInputs == {BadId} \cup (1..(MaxBookings + 1))
NoReason == "none"          \* cancellationReason never assigned

\* coupon codes already stored on some booking
usedCoupons == {bookings[i].couponCode : i \in 1..Len(bookings)} \ {Absent}

\* models/Booking.js: couponCode is optional and unique when present
newCouponCodes == {Absent} \cup (Coupons \ usedCoupons)

productBookable_NotDiscontinued(product) == product.availability # "Discontinued"

\* the availability test of createBooking
productBookable(product) == product.availability = "Available"

NewBooking(productId, caller, coupon) ==
    [productId |-> productId, userId |-> caller, status |-> "confirmed",
     cancellationReason |-> NoReason, couponCode |-> coupon]

\* POST /api/bookings.  productId 0 stands for a missing productId; fieldsOk for
\* customerName, customerPhone, customerAddress, quantity and bookingDate all truthy
createBooking(caller, productId, fieldsOk) ==
    /\ Tick
    /\ UNCHANGED <<users, products, pending, acks>>
    /\ IF ~authenticateToken(caller)
       THEN /\ last' = Resp("createBooking", caller, productId, 401, "Unauthenticated", <<>>)
            /\ UNCHANGED bookings
       ELSE IF productId = 0 \/ ~fieldsOk
       THEN /\ last' = Resp("createBooking", caller, productId, 400, "ValidationError", <<>>)
            /\ UNCHANGED bookings
       ELSE IF findById(products, productId) = "CastError"
       THEN /\ last' = Resp("createBooking", caller, productId, 500, "InternalError", <<>>)
            /\ UNCHANGED bookings
       ELSE IF findById(products, productId) = "null"
       THEN /\ last' = Resp("createBooking", caller, productId, 404, "NotFound", <<>>)
            /\ UNCHANGED bookings
       ELSE IF ~productBookable(products[productId])
       THEN /\ last' = Resp("createBooking", caller, productId, 400, "NotAvailable", <<>>)
            /\ UNCHANGED bookings
       ELSE /\ Len(bookings) < MaxBookings
            /\ \E coupon \in newCouponCodes :
                  bookings' = Append(bookings, NewBooking(productId, caller, coupon))
            /\ last' = Resp("createBooking", caller, productId, 201, "Created",
                            <<Len(bookings) + 1>>)

\* Booking.find(filter).sort({orderDate: -1}): the matching ids, newest first
RECURSIVE findBookings(_, _)
findBookings(n, owner) ==
    IF n = 0 THEN <<>>
    ELSE IF owner = 0 \/ bookings[n].userId = owner
         THEN <<n>> \o findBookings(n - 1, owner)
         ELSE findBookings(n - 1, owner)

bookingsFilter_NoScope(caller) == 0

\* the role branch of getBookings: no filter for an admin, { userId } otherwise
bookingsFilter(caller) == IF users[caller].role = "admin" THEN 0 ELSE caller

\* GET /api/bookings
getBookings(caller) ==
    /\ Tick
    /\ UNCHANGED <<users, products, bookings, pending, acks>>
    /\ IF ~authenticateToken(caller)
       THEN last' = Resp("getBookings", caller, 0, 401, "Unauthenticated", <<>>)
       ELSE last' = Resp("getBookings", caller, 0, 200, "OK",
                         findBookings(Len(bookings), bookingsFilter(caller)))

\* isAdmin || isOwner of getBookingById
canViewById(caller, booking) ==
    users[caller].role = "admin" \/ booking.userId = caller

\* GET /api/bookings/:id
getBookingById(caller, id) ==
    /\ Tick
    /\ UNCHANGED <<users, products, bookings, pending, acks>>
    /\ IF ~authenticateToken(caller)
       THEN last' = Resp("getBookingById", caller, id, 401, "Unauthenticated", <<>>)
       ELSE IF findById(bookings, id) = "CastError"
       THEN last' = Resp("getBookingById", caller, id, 500, "InternalError", <<>>)
       ELSE IF findById(bookings, id) = "null"
       THEN last' = Resp("getBookingById", caller, id, 404, "NotFound", <<>>)
       ELSE IF ~canViewById(caller, bookings[id])
       THEN last' = Resp("getBookingById", caller, id, 403, "Forbidden", <<>>)
       ELSE last' = Resp("getBookingById", caller, id, 200, "OK", <<id>>)

\* Booking.findOne({ couponCode }): the booking holding the code, 0 when none
findOneByCoupon(code) ==
    IF \E i \in 1..Len(bookings) : bookings[i].couponCode = code
    THEN CHOOSE i \in 1..Len(bookings) : bookings[i].couponCode = code
    ELSE 0

\* isAdmin || isOwner of getByCoupon
canViewByCoupon(caller, booking) ==
    users[caller].role = "admin" \/ booking.userId = caller

\* GET /api/bookings/coupon/:couponCode
getByCoupon(caller, couponCode) ==
    /\ Tick
    /\ UNCHANGED <<users, products, bookings, pending, acks>>
    /\ LET id == findOneByCoupon(toUpperCase(couponCode)) IN
       IF ~authenticateToken(caller)
       THEN last' = Resp("getByCoupon", caller, 0, 401, "Unauthenticated", <<>>)
       ELSE IF id = 0
       THEN last' = Resp("getByCoupon", caller, 0, 404, "NotFound", <<>>)
       ELSE IF ~canViewByCoupon(caller, bookings[id])
       THEN last' = Resp("getByCoupon", caller, id, 403, "Forbidden", <<>>)
       ELSE last' = Resp("getByCoupon", caller, id, 200, "OK", <<id>>)

\* isAdmin || isOwner of cancelBooking
canCancel(caller, booking) ==
    users[caller].role = "admin" \/ booking.userId = caller

cancelConflict_OnlyCancelled(status) ==
    IF status = "cancelled" THEN "AlreadyCancelled" ELSE "none"

\* the two status tests of cancelBooking
cancelConflict(status) ==
    IF status = "cancelled" THEN "AlreadyCancelled"
    ELSE IF status = "completed" THEN "CannotCancelCompleted"
    ELSE "none"

\* models/Booking.js updateStatus: stores the new status
updateStatus(booking, status) == [booking EXCEPT !.status = status]

cancellationReasonOf_ActorOnly(caller, reason) ==
    IF users[caller].role = "admin" THEN "Cancelled by Admin"
    ELSE "Cancelled by customer"

\* req.body.reason || (isAdmin ? 'Cancelled by Admin' : 'Cancelled by customer')
cancellationReasonOf(caller, reason) ==
    IF Truthy(reason) THEN reason
    ELSE IF users[caller].role = "admin" THEN "Cancelled by Admin"
    ELSE "Cancelled by customer"

\* PATCH /api/bookings/:id/cancel
cancelBooking(caller, id, reason) ==
    /\ Tick
    /\ UNCHANGED <<users, products, pending, acks>>
    /\ IF ~authenticateToken(caller)
       THEN /\ last' = Resp("cancelBooking", caller, id, 401, "Unauthenticated", <<>>)
            /\ UNCHANGED bookings
       ELSE IF findById(bookings, id) = "CastError"
       THEN /\ last' = Resp("cancelBooking", caller, id, 500, "InternalError", <<>>)
            /\ UNCHANGED bookings
       ELSE IF findById(bookings, id) = "null"
       THEN /\ last' = Resp("cancelBooking", caller, id, 404, "NotFound", <<>>)
            /\ UNCHANGED bookings
       ELSE IF ~canCancel(caller, bookings[id])
       THEN /\ last' = Resp("cancelBooking", caller, id, 403, "Forbidden", <<>>)
            /\ UNCHANGED bookings
       ELSE IF cancelConflict(bookings[id].status) # "none"
       THEN /\ last' = Resp("cancelBooking", caller, id, 400,
                            cancelConflict(bookings[id].status), <<>>)
            /\ UNCHANGED bookings
       ELSE /\ bookings' = [bookings EXCEPT ![id] =
                  [updateStatus(@, "cancelled") EXCEPT
                      !.cancellationReason = cancellationReasonOf(caller, reason)]]
            /\ last' = Resp("cancelBooking", caller, id, 200, "OK", <<id>>)

canComplete_AnyCaller(caller) == TRUE

\* the role test of completeBooking
canComplete(caller) == users[caller].role = "admin"

completeConflict_OnlyCompleted(status) ==
    IF status = "completed" THEN "AlreadyCompleted" ELSE "none"

\* the two status tests of completeBooking
completeConflict(status) ==
    IF status = "completed" THEN "AlreadyCompleted"
    ELSE IF status = "cancelled" THEN "CannotCompleteCancelled"
    ELSE "none"

\* PATCH /api/bookings/:id/complete
completeBooking(caller, id) ==
    /\ Tick
    /\ UNCHANGED <<users, products, pending, acks>>
    /\ IF ~authenticateToken(caller)
       THEN /\ last' = Resp("completeBooking", caller, id, 401, "Unauthenticated", <<>>)
            /\ UNCHANGED bookings
       ELSE IF ~canComplete(caller)
       THEN /\ last' = Resp("completeBooking", caller, id, 403, "Forbidden", <<>>)
            /\ UNCHANGED bookings
       ELSE IF findById(bookings, id) = "CastError"
       THEN /\ last' = Resp("completeBooking", caller, id, 500, "InternalError", <<>>)
            /\ UNCHANGED bookings
       ELSE IF findById(bookings, id) = "null"
       THEN /\ last' = Resp("completeBooking", caller, id, 404, "NotFound", <<>>)
            /\ UNCHANGED bookings
       ELSE IF completeConflict(bookings[id].status) # "none"
       THEN /\ last' = Resp("completeBooking", caller, id, 400,
                            completeConflict(bookings[id].status), <<>>)
            /\ UNCHANGED bookings
       ELSE /\ bookings' = [bookings EXCEPT ![id] = updateStatus(@, "completed")]
            /\ last' = Resp("completeBooking", caller, id, 200, "OK", <<id>>)

\* ------------------------------------------------------------------- users
\* request values: an email and a phone some stored user holds, and a free one
Emails == {"e1", "e4"}
Phones == {"p2", "p4"}
UserIdInputs == {BadId} \cup (1..(MaxUsers + 1))
BodyKeys == {"name", "email", "phone", "role", "isActive", "password"}

\* the values a request body may carry under a key (a name is stored like an
\* email, without any test on it, and is not sent by the requests explored)
BodyValues(k) ==
    CASE k = "name" -> {}
      [] k = "email" -> Emails
      [] k = "phone" -> Phones
      [] k = "role" -> {"user", "admin"}
      [] k = "isActive" -> {"true", "false"}
      [] k = "password" -> {"pw9"}

AllUserBodies ==
    [name : BodyValues("name") \cup {Absent},
     email : BodyValues("email") \cup {Absent},
     phone : BodyValues("phone") \cup {Absent},
     role : BodyValues("role") \cup {Absent},
     isActive : BodyValues("isActive") \cup {Absent},
     password : BodyValues("password") \cup {Absent}]

KeysOf(b) == {k \in BodyKeys : b[k] # Absent}

\* request bodies of PUT /api/users/:id: any one key or any pair of keys present
\* (written as an image so that the set is enumerated once)
UserBodies ==
    {b : b \in {x \in AllUserBodies :
                   \E k1, k2 \in BodyKeys : KeysOf(x) \subseteq {k1, k2}}}

EmptyBody ==
    [name |-> Absent, email |-> Absent, phone |-> Absent, role |-> Absent,
     isActive |-> Absent, password |-> Absent]

\* models/User.js pre-save hook: the password is stored as a salted hash
Hash(password) == <<"bcrypt", password>>

User(name, email, phone, password, role) ==
    [name |-> name, email |-> email, phone |-> phone, password |-> password,
     role |-> role, isActive |-> TRUE, lastLogin |-> 0]

\* models/User.js: email and phone carry a unique index; a write that would give
\* user id (0: a new document) an email or phone of another document is rejected
uniqueIndexOk(id, email, phone) ==
    \A j \in 1..Len(users) :
        j # id => users[j].email # email /\ users[j].phone # phone

registerExisting_EmailOnly(email, phone) ==
    \E j \in 1..Len(users) : users[j].email = email

\* User.findOne({ $or: [{ email }, { phone }] }) of register
registerExisting(email, phone) ==
    \E j \in 1..Len(users) : users[j].email = email \/ users[j].phone = phone

\* POST /api/auth/register, in one piece
register(name, email, phone, password, valid) ==
    /\ TickUser
    /\ UNCHANGED <<products, bookings, pending, acks>>
    /\ IF ~valid
       THEN /\ last' = Resp("register", NoUser, 0, 400, "ValidationError", <<>>)
            /\ UNCHANGED users
       ELSE IF registerExisting(email, phone)
       THEN /\ last' = Resp("register", NoUser, 0, 400, "Conflict", <<>>)
            /\ UNCHANGED users
       ELSE IF ~uniqueIndexOk(0, email, phone)
       THEN /\ last' = Resp("register", NoUser, 0, 500, "InternalError", <<>>)
            /\ UNCHANGED users
       ELSE /\ Len(users) < MaxUsers
            /\ users' = Append(users, User(name, email, phone, Hash(password), "user"))
            /\ last' = Resp("register", NoUser, Len(users) + 1, 201, "Created", <<>>)

\* User.findOne({ phone, _id: { $ne: req.user._id } }) of updateProfile
profilePhoneTaken(caller, phone) ==
    /\ Truthy(phone)
    /\ \E j \in 1..Len(users) : j # caller /\ users[j].phone = phone

\* updateData of updateProfile applied by findByIdAndUpdate
applyProfile(user, name, phone) ==
    [user EXCEPT !.name = IF Truthy(name) THEN name ELSE @,
                 !.phone = IF Truthy(phone) THEN phone ELSE @]

\* PUT /api/auth/profile, in one piece
updateProfile(caller, name, phone, valid) ==
    /\ TickUser
    /\ UNCHANGED <<products, bookings, pending, acks>>
    /\ IF ~authenticateToken(caller)
       THEN /\ last' = Resp("updateProfile", caller, caller, 401, "Unauthenticated", <<>>)
            /\ UNCHANGED users
       ELSE IF ~valid
       THEN /\ last' = Resp("updateProfile", caller, caller, 400, "ValidationError", <<>>)
            /\ UNCHANGED users
       ELSE IF profilePhoneTaken(caller, phone)
       THEN /\ last' = Resp("updateProfile", caller, caller, 400, "Conflict", <<>>)
            /\ UNCHANGED users
       ELSE LET u == applyProfile(users[caller], name, phone) IN
            IF ~uniqueIndexOk(caller, u.email, u.phone)
            THEN /\ last' = Resp("updateProfile", caller, caller, 500, "InternalError", <<>>)
                 /\ UNCHANGED users
            ELSE /\ users' = [users EXCEPT ![caller] = u]
                 /\ last' = Resp("updateProfile", caller, caller, 200, "OK", <<>>)

selfDemotion_IdNotStringified(caller, id, body) == FALSE

\* the self-demotion test of updateUser
selfDemotion(caller, id, body) == caller = id /\ body.role = "user"

\* conflictFilter of updateUser and the findOne on it: one other document
\* matching every supplied one of email and phone
updateUserExisting(id, body) ==
    /\ Truthy(body.email) \/ Truthy(body.phone)
    /\ \E j \in 1..Len(users) :
          /\ j # id
          /\ Truthy(body.email) => users[j].email = body.email
          /\ Truthy(body.phone) => users[j].phone = body.phone

\* findByIdAndUpdate(id, { ...req.body }): every body key that is a schema path is
\* set; no save hook runs, so a password is stored as sent
applyUpdate(user, body) ==
    [name |-> IF body.name # Absent THEN body.name ELSE user.name,
     email |-> IF body.email # Absent THEN body.email ELSE user.email,
     phone |-> IF body.phone # Absent THEN body.phone ELSE user.phone,
     role |-> IF body.role # Absent THEN body.role ELSE user.role,
     isActive |-> IF body.isActive # Absent THEN (body.isActive = "true") ELSE user.isActive,
     password |-> IF body.password # Absent THEN <<"plain", body.password>> ELSE user.password,
     lastLogin |-> user.lastLogin]

\* PUT /api/users/:id (admin), in one piece
updateUser(caller, id, body, valid) ==
    /\ TickUser
    /\ UNCHANGED <<products, bookings, pending, acks>>
    /\ IF ~authenticateToken(caller)
       THEN /\ last' = Resp("updateUser", caller, id, 401, "Unauthenticated", <<>>)
            /\ UNCHANGED users
       ELSE IF ~requireAdmin(caller)
       THEN /\ last' = Resp("updateUser", caller, id, 403, "Forbidden", <<>>)
            /\ UNCHANGED users
       ELSE IF ~valid
       THEN /\ last' = Resp("updateUser", caller, id, 400, "ValidationError", <<>>)
            /\ UNCHANGED users
       ELSE IF findById(users, id) = "CastError"
       THEN /\ last' = Resp("updateUser", caller, id, 400, "InvalidId", <<>>)
            /\ UNCHANGED users
       ELSE IF findById(users, id) = "null"
       THEN /\ last' = Resp("updateUser", caller, id, 404, "NotFound", <<>>)
            /\ UNCHANGED users
       ELSE IF selfDemotion(caller, id, body)
       THEN /\ last' = Resp("updateUser", caller, id, 400, "SelfDemotion", <<>>)
            /\ UNCHANGED users
       ELSE IF updateUserExisting(id, body)
       THEN /\ last' = Resp("updateUser", caller, id, 400, "Conflict", <<>>)
            /\ UNCHANGED users
       ELSE LET u == applyUpdate(users[id], body) IN
            IF ~uniqueIndexOk(id, u.email, u.phone)
            THEN /\ last' = Resp("updateUser", caller, id, 500, "InternalError", <<>>)
                 /\ UNCHANGED users
            ELSE /\ users' = [users EXCEPT ![id] = u]
                 /\ last' = Resp("updateUser", caller, id, 200, "OK", <<>>)

\* the own-account test of deleteUser
selfDelete(caller, id) == caller = id

\* DELETE /api/users/:id (admin): soft delete
deleteUser(caller, id) ==
    /\ TickUser
    /\ UNCHANGED <<products, bookings, pending, acks>>
    /\ IF ~authenticateToken(caller)
       THEN /\ last' = Resp("deleteUser", caller, id, 401, "Unauthenticated", <<>>)
            /\ UNCHANGED users
       ELSE IF ~requireAdmin(caller)
       THEN /\ last' = Resp("deleteUser", caller, id, 403, "Forbidden", <<>>)
            /\ UNCHANGED users
       ELSE IF findById(users, id) = "CastError"
       THEN /\ last' = Resp("deleteUser", caller, id, 400, "InvalidId", <<>>)
            /\ UNCHANGED users
       ELSE IF findById(users, id) = "null"
       THEN /\ last' = Resp("deleteUser", caller, id, 404, "NotFound", <<>>)
            /\ UNCHANGED users
       ELSE IF selfDelete(caller, id)
       THEN /\ last' = Resp("deleteUser", caller, id, 400, "SelfDeleteForbidden", <<>>)
            /\ UNCHANGED users
       ELSE /\ users' = [users EXCEPT ![id].isActive = FALSE]
            /\ last' = Resp("deleteUser", caller, id, 200, "OK", <<>>)

\* ------------------------------------------------------------ initial state
Init ==
    /\ users = << User("n1", "e1", "p1", Hash("pw1"), "admin"),
                  User("n2", "e2", "p2", Hash("pw2"), "user"),
                  User("n3", "e3", "p3", Hash("pw1"), "user") >>
    /\ products = <<>>
    /\ bookings = <<>>
    /\ last = Resp("none", NoUser, 0, 0, "none", <<>>)
    /\ now = 0
    /\ pending = <<>>
    /\ acks = <<>>

\* ------------------------------------------- bookings, one request at a time
\* a handler reads its body only once its guards and findById have passed;
\* before that one body stands for all of them
ProductBodiesThatMatter(c, id) ==
    IF authenticateToken(c) /\ requireAdmin(c) /\ findById(products, id) = "found"
    THEN ProductBodies
    ELSE {PlainUpdate}

ReasonsThatMatter(c, id) ==
    IF authenticateToken(c) /\ findById(bookings, id) = "found"
    THEN Reasons
    ELSE {Absent}

ProductStep ==
    \/ \E c \in Callers, a \in {Absent, "Out of Stock"}, n \in {0, 1} :
          createProduct(c, [PlainCreate EXCEPT !.availability = a], Files(Len(products) + 1, 0, n))
    \/ \E c \in Callers, id \in ProductIdInputs :
          \E b \in ProductBodiesThatMatter(c, id) : updateProduct(c, id, b, <<>>)
    \/ \E c \in Callers, id \in ProductIdInputs : deleteProduct(c, id)

BookingStep ==
    \/ \E c \in Callers, p \in {0} \cup ProductIdInputs, ok \in BOOLEAN :
          createBooking(c, p, ok)
    \/ \E c \in Callers : getBookings(c)
    \/ \E c \in Callers, id \in BookingIdInputs : getBookingById(c, id)
    \/ \E c \in Callers, cp \in CouponParams : getByCoupon(c, cp)
    \/ \E c \in Callers, id \in BookingIdInputs :
          \E r \in ReasonsThatMatter(c, id) : cancelBooking(c, id, r)
    \/ \E c \in Callers, id \in BookingIdInputs : completeBooking(c, id)

Next == ProductStep \/ BookingStep

Spec == Init /\ [][Next]_vars

\* --------------------------------------- the users, one request at a time
\* updateUser reads its body only once the guards, the validation and findById
\* have passed; before that one body stands for all of them
BodiesThatMatter(c, id, ok) ==
    IF authenticateToken(c) /\ requireAdmin(c) /\ ok /\ findById(users, id) = "found"
    THEN UserBodies
    ELSE {EmptyBody}

UserStep ==
    \/ \E e \in Emails, p \in Phones, ok \in BOOLEAN : register("n4", e, p, "pw4", ok)
    \/ \E c \in Callers, n \in {Absent}, p \in Phones \cup {Absent}, ok \in BOOLEAN :
          updateProfile(c, n, p, ok)
    \/ \E c \in Callers, id \in UserIdInputs, ok \in BOOLEAN :
          \E b \in BodiesThatMatter(c, id, ok) : updateUser(c, id, b, ok)
    \/ \E c \in Callers, id \in UserIdInputs : deleteUser(c, id)

SpecUsers == Init /\ [][UserStep]_vars

\* ----------------------------- views and likes, interleaved at their awaits
Remove(seq, k) == SubSeq(seq, 1, k - 1) \o SubSeq(seq, k + 1, Len(seq))

\* models/Product.js incrementViews: an atomic increment in the store
incrementViews(product) == [product EXCEPT !.views = @ + 1]

\* models/Product.js toggleLike: an atomic increment in the store
toggleLike(product) == [product EXCEPT !.likes = @ + 1]

\* incrementView up to its findById: the loaded document waits for the write
incrementViewFind(id) ==
    /\ Tick
    /\ UNCHANGED <<users, products, bookings, acks>>
    /\ IF findById(products, id) = "CastError"
       THEN /\ last' = Resp("incrementView", NoUser, id, 400, "InvalidId", <<>>)
            /\ UNCHANGED pending
       ELSE IF findById(products, id) = "null"
       THEN /\ last' = Resp("incrementView", NoUser, id, 404, "NotFound", <<>>)
            /\ UNCHANGED pending
       ELSE /\ Len(pending) < MaxInFlight
            /\ pending' = Append(pending,
                                 [op |-> "incrementView", id |-> id, doc |-> products[id]])
            /\ UNCHANGED last

incrementViewWrite_SaveLoaded(stored, doc) == [stored EXCEPT !.views = doc.views + 1]

\* await product.incrementViews() on the loaded document
incrementViewWrite(stored, doc) == incrementViews(stored)

\* incrementView from its write to the response
incrementViewDone(k) ==
    /\ k \in 1..Len(pending)
    /\ pending[k].op = "incrementView"
    /\ products' = [products EXCEPT ![pending[k].id] = incrementViewWrite(@, pending[k].doc)]
    /\ acks' = [acks EXCEPT ![pending[k].id].views = @ + 1]
    /\ last' = Resp("incrementView", NoUser, pending[k].id, 200, "OK", <<>>)
    /\ pending' = Remove(pending, k)
    /\ UNCHANGED <<users, bookings, now>>

\* likeProduct up to its findById
likeProductFind(id) ==
    /\ Tick
    /\ UNCHANGED <<users, products, bookings, acks>>
    /\ IF findById(products, id) = "CastError"
       THEN /\ last' = Resp("likeProduct", NoUser, id, 400, "InvalidId", <<>>)
            /\ UNCHANGED pending
       ELSE IF findById(products, id) = "null"
       THEN /\ last' = Resp("likeProduct", NoUser, id, 404, "NotFound", <<>>)
            /\ UNCHANGED pending
       ELSE /\ Len(pending) < MaxInFlight
            /\ pending' = Append(pending,
                                 [op |-> "likeProduct", id |-> id, doc |-> products[id]])
            /\ UNCHANGED last

\* await product.toggleLike() on the loaded document
likeProductWrite(stored, doc) == toggleLike(stored)

\* likeProduct from its write to the response
likeProductDone(k) ==
    /\ k \in 1..Len(pending)
    /\ pending[k].op = "likeProduct"
    /\ products' = [products EXCEPT ![pending[k].id] = likeProductWrite(@, pending[k].doc)]
    /\ acks' = [acks EXCEPT ![pending[k].id].likes = @ + 1]
    /\ last' = Resp("likeProduct", NoUser, pending[k].id, 200, "OK", <<>>)
    /\ pending' = Remove(pending, k)
    /\ UNCHANGED <<users, bookings, now>>

CounterStep ==
    \/ \E c \in Callers, n \in {0, 1} : createProduct(c, PlainCreate, Files(Len(products) + 1, 0, n))
    \/ \E id \in ProductIdInputs : incrementViewFind(id)
    \/ \E k \in 1..MaxInFlight : incrementViewDone(k)
    \/ \E id \in ProductIdInputs : likeProductFind(id)
    \/ \E k \in 1..MaxInFlight : likeProductDone(k)

SpecCounters == Init /\ [][CounterStep]_vars

\* ------------------------------- the users, interleaved at their awaits
\* register up to its findOne
registerFind(name, email, phone, password, valid) ==
    /\ TickUser
    /\ UNCHANGED <<users, products, bookings, acks>>
    /\ IF ~valid
       THEN /\ last' = Resp("register", NoUser, 0, 400, "ValidationError", <<>>)
            /\ UNCHANGED pending
       ELSE IF registerExisting(email, phone)
       THEN /\ last' = Resp("register", NoUser, 0, 400, "Conflict", <<>>)
            /\ UNCHANGED pending
       ELSE /\ Len(pending) < MaxInFlight
            /\ pending' = Append(pending,
                  [op |-> "register", caller |-> NoUser, target |-> 0,
                   body |-> [name |-> name, email |-> email, phone |-> phone,
                             password |-> password]])
            /\ UNCHANGED last

\* register from user.save() to the response
registerSave(k) ==
    /\ k \in 1..Len(pending)
    /\ pending[k].op = "register"
    /\ pending' = Remove(pending, k)
    /\ UNCHANGED <<products, bookings, acks, now>>
    /\ LET b == pending[k].body IN
       IF ~uniqueIndexOk(0, b.email, b.phone)
       THEN /\ last' = Resp("register", NoUser, 0, 500, "InternalError", <<>>)
            /\ UNCHANGED users
       ELSE /\ Len(users) < MaxUsers
            /\ users' = Append(users, User(b.name, b.email, b.phone, Hash(b.password), "user"))
            /\ last' = Resp("register", NoUser, Len(users) + 1, 201, "Created", <<>>)

\* updateProfile up to its findOne
updateProfileFind(caller, name, phone, valid) ==
    /\ TickUser
    /\ UNCHANGED <<users, products, bookings, acks>>
    /\ IF ~authenticateToken(caller)
       THEN /\ last' = Resp("updateProfile", caller, caller, 401, "Unauthenticated", <<>>)
            /\ UNCHANGED pending
       ELSE IF ~valid
       THEN /\ last' = Resp("updateProfile", caller, caller, 400, "ValidationError", <<>>)
            /\ UNCHANGED pending
       ELSE IF profilePhoneTaken(caller, phone)
       THEN /\ last' = Resp("updateProfile", caller, caller, 400, "Conflict", <<>>)
            /\ UNCHANGED pending
       ELSE /\ Len(pending) < MaxInFlight
            /\ pending' = Append(pending,
                  [op |-> "updateProfile", caller |-> caller, target |-> caller,
                   body |-> [name |-> name, phone |-> phone]])
            /\ UNCHANGED last

\* updateProfile from findByIdAndUpdate to the response
updateProfileWrite(k) ==
    /\ k \in 1..Len(pending)
    /\ pending[k].op = "updateProfile"
    /\ pending' = Remove(pending, k)
    /\ UNCHANGED <<products, bookings, acks, now>>
    /\ LET c == pending[k].caller
           u == applyProfile(users[c], pending[k].body.name, pending[k].body.phone)
       IN  IF ~uniqueIndexOk(c, u.email, u.phone)
           THEN /\ last' = Resp("updateProfile", c, c, 500, "InternalError", <<>>)
                /\ UNCHANGED users
           ELSE /\ users' = [users EXCEPT ![c] = u]
                /\ last' = Resp("updateProfile", c, c, 200, "OK", <<>>)

\* updateUser up to its findOne
updateUserFind(caller, id, body, valid) ==
    /\ TickUser
    /\ UNCHANGED <<users, products, bookings, acks>>
    /\ IF ~authenticateToken(caller)
       THEN /\ last' = Resp("updateUser", caller, id, 401, "Unauthenticated", <<>>)
            /\ UNCHANGED pending
       ELSE IF ~requireAdmin(caller)
       THEN /\ last' = Resp("updateUser", caller, id, 403, "Forbidden", <<>>)
            /\ UNCHANGED pending
       ELSE IF ~valid
       THEN /\ last' = Resp("updateUser", caller, id, 400, "ValidationError", <<>>)
            /\ UNCHANGED pending
       ELSE IF findById(users, id) = "CastError"
       THEN /\ last' = Resp("updateUser", caller, id, 400, "InvalidId", <<>>)
            /\ UNCHANGED pending
       ELSE IF findById(users, id) = "null"
       THEN /\ last' = Resp("updateUser", caller, id, 404, "NotFound", <<>>)
            /\ UNCHANGED pending
       ELSE IF selfDemotion(caller, id, body)
       THEN /\ last' = Resp("updateUser", caller, id, 400, "SelfDemotion", <<>>)
            /\ UNCHANGED pending
       ELSE IF updateUserExisting(id, body)
       THEN /\ last' = Resp("updateUser", caller, id, 400, "Conflict", <<>>)
            /\ UNCHANGED pending
       ELSE /\ Len(pending) < MaxInFlight
            /\ pending' = Append(pending,
                  [op |-> "updateUser", caller |-> caller, target |-> id, body |-> body])
            /\ UNCHANGED last

\* updateUser from findByIdAndUpdate to the response
updateUserWrite(k) ==
    /\ k \in 1..Len(pending)
    /\ pending[k].op = "updateUser"
    /\ pending' = Remove(pending, k)
    /\ UNCHANGED <<products, bookings, acks, now>>
    /\ LET c == pending[k].caller
           id == pending[k].target
           u == applyUpdate(users[id], pending[k].body)
       IN  IF ~uniqueIndexOk(id, u.email, u.phone)
           THEN /\ last' = Resp("updateUser", c, id, 500, "InternalError", <<>>)
                /\ UNCHANGED users
           ELSE /\ users' = [users EXCEPT ![id] = u]
                /\ last' = Resp("updateUser", c, id, 200, "OK", <<>>)

\* the interleavings are explored for the bodies that carry contact values
ContactBodies == {b : b \in {x \in UserBodies : KeysOf(x) \subseteq {"email", "phone"}}}

UserConcStep ==
    \/ \E e \in Emails, p \in Phones, ok \in BOOLEAN : registerFind("n4", e, p, "pw4", ok)
    \/ \E k \in 1..MaxInFlight : registerSave(k)
    \/ \E c \in Callers, n \in {Absent}, p \in Phones \cup {Absent}, ok \in BOOLEAN :
          updateProfileFind(c, n, p, ok)
    \/ \E k \in 1..MaxInFlight : updateProfileWrite(k)
    \/ \E c \in Callers, id \in UserIdInputs, ok \in BOOLEAN :
          \E b \in BodiesThatMatter(c, id, ok) \cap ContactBodies :
             updateUserFind(c, id, b, ok)
    \/ \E k \in 1..MaxInFlight : updateUserWrite(k)

SpecUsersConc == Init /\ [][UserConcStep]_vars

\* ------------------------------------------------ the catalogue and its reads
\* express-validator toBoolean(): everything but '0', 'false' and '' is true
toBoolean(v) == v \notin {"0", "false", ""}

buildFilter_IgnoresOverride(q) ==
    [isActive |-> TRUE,
     availability |-> IF Truthy(q.availability) THEN q.availability ELSE Absent]

\* buildFilter, for the filters kept here: the route's sanitizer has turned an
\* isActive parameter into a boolean before the handler reads it
buildFilter(q) ==
    [isActive |-> IF q.isActive # Absent THEN toBoolean(q.isActive) ELSE TRUE,
     availability |-> IF Truthy(q.availability) THEN q.availability ELSE Absent]

\* Product.find(filter) / countDocuments(filter): does the document match
matchProduct(product, filter) ==
    /\ product.isActive = filter.isActive
    /\ filter.availability # Absent => product.availability = filter.availability

\* the ids of a collection, newest first (sort -createdAt)
RECURSIVE newestFirst(_)
newestFirst(n) == IF n = 0 THEN <<>> ELSE <<n>> \o newestFirst(n - 1)

\* parseInt of an optional page or limit parameter, with the handler's default
parseIntOr(param, default) == IF param = <<>> THEN default ELSE param[1]

\* Math.ceil(total / limit) for limit >= 1
ceil(total, limit) == (total + limit - 1) \div limit

\* Query.skip(skip).limit(limit) on a sorted list
skipLimit(sorted, skip, limit) ==
    SubSeq(sorted, skip + 1, IF skip + limit < Len(sorted) THEN skip + limit ELSE Len(sorted))

\* the pagination block of listProducts
productsPagination(page, limit, total) ==
    [currentPage |-> page,
     totalPages |-> ceil(total, limit),
     total |-> total,
     hasNextPage |-> page * limit < total,
     hasPrevPage |-> page > 1]

\* GET /api/products (public): no validationResult test stands before the query
listProducts(q) ==
    /\ Tick
    /\ UNCHANGED <<users, products, bookings, pending, acks>>
    /\ LET page == parseIntOr(q.page, 1)
           limit == parseIntOr(q.limit, DefaultProductsLimit)
           filter == buildFilter(q)
           found == SelectSeq(newestFirst(Len(products)),
                              LAMBDA id : matchProduct(products[id], filter))
       IN  last' = Resp("listProducts", NoUser, 0, 200, "OK",
                        [query |-> q,
                         pageSize |-> limit,
                         items |-> skipLimit(found, (page - 1) * limit, limit),
                         pagination |-> productsPagination(page, limit, Len(found))])

\* GET /api/products/:id (public)
getProduct(id) ==
    /\ Tick
    /\ UNCHANGED <<users, products, bookings, pending, acks>>
    /\ IF findById(products, id) = "CastError"
       THEN last' = Resp("getProduct", NoUser, id, 400, "InvalidId", <<>>)
       ELSE IF findById(products, id) = "null"
       THEN last' = Resp("getProduct", NoUser, id, 404, "NotFound", <<>>)
       ELSE last' = Resp("getProduct", NoUser, id, 200, "OK", <<products[id]>>)

\* the query strings tried on the catalogue: filters, default page and limit
CatalogQueries ==
    [page : {<<>>}, limit : {<<>>},
     isActive : {Absent, "true", "false"},
     availability : {Absent, "Available", "Discontinued"}]

CatalogStep ==
    \/ \E c \in Callers, n \in {0, 1} :
          createProduct(c, PlainCreate, Files(Len(products) + 1, 0, n))
    \/ \E c \in Callers, id \in ProductIdInputs :
          \E b \in ProductBodiesThatMatter(c, id) : updateProduct(c, id, b, <<>>)
    \/ \E c \in Callers, id \in ProductIdInputs : deleteProduct(c, id)
    \/ \E q \in CatalogQueries : listProducts(q)
    \/ \E id \in ProductIdInputs : getProduct(id)

SpecCatalog == Init /\ [][CatalogStep]_vars

\* ------------------------------------------------- the images of a product
\* the files sent along with an update of product id
UploadsFor(id, n) ==
    IF id \in 1..Len(products) THEN Files(id, Len(products[id].images), n) ELSE Files(0, 0, n)

\* the removePublicIds values tried on product id: none, one stored id, all of them
RemovalsFor(id) ==
    IF id \in 1..Len(products)
    THEN {Undefined, AsArray(products[id].imagePublicIds)}
         \cup {AsArray(<<pid>>) : pid \in Range(products[id].imagePublicIds)}
    ELSE {Undefined}

ImagesStep ==
    \/ \E c \in Callers, n \in 0..MaxFiles :
          createProduct(c, PlainCreate, Files(Len(products) + 1, 0, n))
    \/ \E c \in Callers, id \in ProductIdInputs, n \in 0..MaxFiles :
          \E r \in RemovalsFor(id) :
             updateProduct(c, id, [PlainUpdate EXCEPT !.removePublicIds = r], UploadsFor(id, n))

SpecImages == Init /\ [][ImagesStep]_vars

\* ------------------------------------------------- the fields of a product
\* Array.prototype.join(','): the comma-joined string of a list
RECURSIVE join(_)
join(list) ==
    IF list = <<>> THEN <<>>
    ELSE IF Len(list) = 1 THEN list[1]
    ELSE list[1] \o <<",">> \o join(Tail(list))

\* the entries tried in features and tags: plain, padded and capital, empty
FieldEntries == {<<"a">>, <<" ", "B">>, <<>>}

FieldLists ==
    {<<>>} \cup {<<e>> : e \in FieldEntries}
           \cup {<<e1, e2>> : e1 \in FieldEntries, e2 \in FieldEntries}

\* a list as the structured value and as its comma-joined string
FieldInputs ==
    {Undefined} \cup {AsArray(l) : l \in FieldLists} \cup {AsString(join(l)) : l \in FieldLists}

\* bodies of POST /api/products: the plain one with a single field changed
CreateBodies ==
    {[PlainCreate EXCEPT !.nameLen = n] : n \in {NameMin - 1, NameMin, NameMax, NameMax + 1}}
    \cup {[PlainCreate EXCEPT !.category = "Toys"], [PlainCreate EXCEPT !.availability = "Sold"]}
    \cup {[PlainCreate EXCEPT !.discount = <<d>>] : d \in {0 - 1, 0, DiscountMax, DiscountMax + 1}}
    \cup {[PlainCreate EXCEPT !.features = f] : f \in FieldInputs}
    \cup {[PlainCreate EXCEPT !.tags = t] : t \in FieldInputs}

\* bodies of PUT /api/products/:id that change features or tags
UpdateFieldBodies ==
    {[PlainUpdate EXCEPT !.features = f] : f \in FieldInputs}
    \cup {[PlainUpdate EXCEPT !.tags = t] : t \in FieldInputs}

\* a handler reads its body only once the guards have passed
CreateBodiesThatMatter(c) ==
    IF authenticateToken(c) /\ requireAdmin(c) THEN CreateBodies ELSE {PlainCreate}

UpdateFieldBodiesThatMatter(c, id) ==
    IF authenticateToken(c) /\ requireAdmin(c) /\ findById(products, id) = "found"
    THEN UpdateFieldBodies
    ELSE {PlainUpdate}

FieldsStep ==
    \/ \E c \in Callers, n \in {0, 1} :
          \E b \in CreateBodiesThatMatter(c) :
             now < MaxFieldOps /\ createProduct(c, b, Files(Len(products) + 1, 0, n))
    \/ \E c \in Callers, id \in ProductIdInputs :
          \E b \in UpdateFieldBodiesThatMatter(c, id) :
             now < MaxFieldOps /\ updateProduct(c, id, b, <<>>)

SpecFields == Init /\ [][FieldsStep]_vars

\* ---------------------------------------------------------------- paging
\* the validators of GET /api/users, whose verdict getUsers tests first
usersQueryValid(q) ==
    /\ q.page = <<>> \/ q.page[1] >= 1
    /\ q.limit = <<>> \/ q.limit[1] \in 1..UsersLimitMax
    /\ q.role \in {Absent, "user", "admin"}

\* User.find(filter) / countDocuments(filter) of getUsers
matchUser(user, q) == Truthy(q.role) => user.role = q.role

usersPagination_NextByCount(page, limit, total) ==
    [currentPage |-> page,
     totalPages |-> ceil(total, limit),
     total |-> total,
     hasNextPage |-> page * limit <= total,
     hasPrevPage |-> page > 1]

\* the pagination block of getUsers
usersPagination(page, limit, total) ==
    [currentPage |-> page,
     totalPages |-> ceil(total, limit),
     total |-> total,
     hasNextPage |-> page < ceil(total, limit),
     hasPrevPage |-> page > 1]

\* GET /api/users (admin)
getUsers(caller, q) ==
    /\ Tick
    /\ UNCHANGED <<users, products, bookings, pending, acks>>
    /\ IF ~authenticateToken(caller)
       THEN last' = Resp("getUsers", caller, 0, 401, "Unauthenticated", <<>>)
       ELSE IF ~requireAdmin(caller)
       THEN last' = Resp("getUsers", caller, 0, 403, "Forbidden", <<>>)
       ELSE IF ~usersQueryValid(q)
       THEN last' = Resp("getUsers", caller, 0, 400, "ValidationError", <<>>)
       ELSE LET page == parseIntOr(q.page, 1)
                limit == parseIntOr(q.limit, DefaultUsersLimit)
                found == SelectSeq(newestFirst(Len(users)),
                                   LAMBDA id : matchUser(users[id], q))
            IN  last' = Resp("getUsers", caller, 0, 200, "OK",
                             [query |-> q,
                              pageSize |-> limit,
                              items |-> skipLimit(found, (page - 1) * limit, limit),
                              pagination |-> usersPagination(page, limit, Len(found))])

\* page and limit parameters: missing, small, and one past the route's cap
Pages == {<<>>} \cup {<<p>> : p \in 1..MaxPage}
ProductLimits == {<<>>, <<ProductsLimitMax + 1>>} \cup {<<l>> : l \in 1..MaxLimit}
UserLimits == {<<>>, <<UsersLimitMax>>, <<UsersLimitMax + 1>>} \cup {<<l>> : l \in 1..MaxLimit}

PagingStep ==
    \/ \E c \in {1} : createProduct(c, PlainCreate, Files(Len(products) + 1, 0, 1))
    \/ \E c \in {1}, id \in 1..MaxProducts : deleteProduct(c, id)
    \/ \E p \in Pages, l \in ProductLimits, a \in {Absent, "false"} :
          listProducts([page |-> p, limit |-> l, isActive |-> a, availability |-> Absent])
    \/ \E c \in Callers, p \in Pages, l \in UserLimits, r \in {Absent, "user"} :
          getUsers(c, [page |-> p, limit |-> l, role |-> r])

SpecPaging == Init /\ [][PagingStep]_vars

\* ------------------------------------------------- the admin-only routes
getUserById_NoAdminGate(caller, id) ==
    /\ Tick
    /\ UNCHANGED <<users, products, bookings, pending, acks>>
    /\ IF ~authenticateToken(caller)
       THEN last' = Resp("getUserById", caller, id, 401, "Unauthenticated", <<>>)
       ELSE IF findById(users, id) = "CastError"
       THEN last' = Resp("getUserById", caller, id, 400, "InvalidId", <<>>)
       ELSE IF findById(users, id) = "null"
       THEN last' = Resp("getUserById", caller, id, 404, "NotFound", <<>>)
       ELSE last' = Resp("getUserById", caller, id, 200, "OK", <<id>>)

\* GET /api/users/:id (admin)
getUserById(caller, id) ==
    /\ Tick
    /\ UNCHANGED <<users, products, bookings, pending, acks>>
    /\ IF ~authenticateToken(caller)
       THEN last' = Resp("getUserById", caller, id, 401, "Unauthenticated", <<>>)
       ELSE IF ~requireAdmin(caller)
       THEN last' = Resp("getUserById", caller, id, 403, "Forbidden", <<>>)
       ELSE IF findById(users, id) = "CastError"
       THEN last' = Resp("getUserById", caller, id, 400, "InvalidId", <<>>)
       ELSE IF findById(users, id) = "null"
       THEN last' = Resp("getUserById", caller, id, 404, "NotFound", <<>>)
       ELSE last' = Resp("getUserById", caller, id, 200, "OK", <<id>>)

\* the $group stage of getStatsOverview
overview ==
    [totalUsers |-> Len(users),
     activeUsers |-> Cardinality({i \in 1..Len(users) : users[i].isActive}),
     adminUsers |-> Cardinality({i \in 1..Len(users) : users[i].role = "admin"}),
     regularUsers |-> Cardinality({i \in 1..Len(users) : users[i].role = "user"})]

\* GET /api/users/stats/overview (admin)
getStatsOverview(caller) ==
    /\ Tick
    /\ UNCHANGED <<users, products, bookings, pending, acks>>
    /\ IF ~authenticateToken(caller)
       THEN last' = Resp("getStatsOverview", caller, 0, 401, "Unauthenticated", <<>>)
       ELSE IF ~requireAdmin(caller)
       THEN last' = Resp("getStatsOverview", caller, 0, 403, "Forbidden", <<>>)
       ELSE last' = Resp("getStatsOverview", caller, 0, 200, "OK", <<overview>>)

\* update bodies that change who is an admin and who is active
GateBodies == {b : b \in {x \in UserBodies : KeysOf(x) \subseteq {"role", "isActive"}}}

AdminStep ==
    \/ \E c \in Callers : getUsers(c, [page |-> <<>>, limit |-> <<>>, role |-> Absent])
    \/ \E c \in Callers, id \in UserIdInputs : getUserById(c, id)
    \/ \E c \in Callers, id \in UserIdInputs :
          \E b \in BodiesThatMatter(c, id, TRUE) \cap GateBodies : updateUser(c, id, b, TRUE)
    \/ \E c \in Callers, id \in UserIdInputs : deleteUser(c, id)
    \/ \E c \in Callers : getStatsOverview(c)
    \/ \E c \in Callers : createProduct(c, PlainCreate, Files(Len(products) + 1, 0, 1))
    \/ \E c \in Callers, id \in ProductIdInputs :
          \E b \in ProductBodiesThatMatter(c, id) : updateProduct(c, id, b, <<>>)
    \/ \E c \in Callers, id \in ProductIdInputs : deleteProduct(c, id)

SpecAdmin == Init /\ [][AdminStep]_vars

\* ------------------------------------------------------------------ login
generateToken_FirstUser(userId) == <<"jwt", 1>>

\* jwt.sign({ userId }, secret): the token carries the user id
generateToken(userId) == <<"jwt", userId>>

\* models/User.js comparePassword: bcrypt.compare with the stored hash
comparePassword(user, password) == user.password = Hash(password)

\* User.findOne(filter): the id of the user with this email (and role), 0 if none
findOneByEmail(email, roles) ==
    IF \E u \in 1..Len(users) : users[u].email = email /\ users[u].role \in roles
    THEN CHOOSE u \in 1..Len(users) : users[u].email = email /\ users[u].role \in roles
    ELSE 0

accountDeactivated_Never(user) == FALSE

\* the isActive test of login and adminLogin
accountDeactivated(user) == ~user.isActive

\* login and adminLogin differ in the filter of findOne only
loginAs(op, roles, email, password, valid) ==
    /\ Tick
    /\ UNCHANGED <<products, bookings, pending, acks>>
    /\ LET u == findOneByEmail(email, roles) IN
       IF ~valid
       THEN /\ last' = Resp(op, NoUser, 0, 400, "ValidationError", <<>>)
            /\ UNCHANGED users
       ELSE IF u = 0
       THEN /\ last' = Resp(op, NoUser, 0, 401, "InvalidCredentials", <<>>)
            /\ UNCHANGED users
       ELSE IF accountDeactivated(users[u])
       THEN /\ last' = Resp(op, NoUser, u, 401, "Deactivated", <<>>)
            /\ UNCHANGED users
       ELSE IF ~comparePassword(users[u], password)
       THEN /\ last' = Resp(op, NoUser, u, 401, "InvalidCredentials", <<>>)
            /\ UNCHANGED users
       ELSE /\ users' = [users EXCEPT ![u].lastLogin = now + 1]
            /\ last' = Resp(op, NoUser, u, 200, "OK", <<generateToken(u)>>)

\* POST /api/auth/login
login(email, password, valid) == loginAs("login", {"user", "admin"}, email, password, valid)

\* POST /api/auth/admin-login
adminLogin(email, password, valid) == loginAs("adminLogin", {"admin"}, email, password, valid)

LoginEmails == {"e1", "e2", "e4", "e5"}
LoginPasswords == {"pw1", "pw4", "pw9"}

\* admin updates that bear on a login: the flag, the email, the password
LoginBodies ==
    {[EmptyBody EXCEPT !.isActive = "true"], [EmptyBody EXCEPT !.isActive = "false"],
     [EmptyBody EXCEPT !.email = "e5"], [EmptyBody EXCEPT !.password = "pw9"]}

LoginStep ==
    \/ \E ok \in BOOLEAN : register("n4", "e4", "p4", "pw4", ok)
    \/ \E e \in LoginEmails, p \in LoginPasswords, ok \in BOOLEAN : login(e, p, ok)
    \/ \E e \in LoginEmails, p \in LoginPasswords, ok \in BOOLEAN : adminLogin(e, p, ok)
    \/ \E id \in 1..MaxUsers : \E b \in LoginBodies : updateUser(1, id, b, TRUE)
    \/ \E id \in 1..MaxUsers : deleteUser(1, id)

SpecLogin == Init /\ [][LoginStep]_vars

\* ------------------------- cancel and complete, interleaved at their awaits
\* cancelBooking up to its status tests: findById, the authorization and the
\* two tests run on the loaded document; a request that passes them waits for
\* its writes
cancelBookingFind(caller, id, reason) ==
    /\ Tick
    /\ UNCHANGED <<users, products, bookings, acks>>
    /\ IF ~authenticateToken(caller)
       THEN /\ last' = Resp("cancelBooking", caller, id, 401, "Unauthenticated", <<>>)
            /\ UNCHANGED pending
       ELSE IF findById(bookings, id) = "CastError"
       THEN /\ last' = Resp("cancelBooking", caller, id, 500, "InternalError", <<>>)
            /\ UNCHANGED pending
       ELSE IF findById(bookings, id) = "null"
       THEN /\ last' = Resp("cancelBooking", caller, id, 404, "NotFound", <<>>)
            /\ UNCHANGED pending
       ELSE IF ~canCancel(caller, bookings[id])
       THEN /\ last' = Resp("cancelBooking", caller, id, 403, "Forbidden", <<>>)
            /\ UNCHANGED pending
       ELSE IF cancelConflict(bookings[id].status) # "none"
       THEN /\ last' = Resp("cancelBooking", caller, id, 400,
                            cancelConflict(bookings[id].status), <<>>)
            /\ UNCHANGED pending
       ELSE /\ Len(pending) < MaxInFlight
            /\ pending' = Append(pending,
                  [op |-> "cancelBooking", caller |-> caller, id |-> id,
                   reason |-> reason, stage |-> "updateStatus"])
            /\ UNCHANGED last

\* await booking.updateStatus('cancelled') of a suspended cancelBooking
cancelBookingUpdateStatus(k) ==
    /\ k \in 1..Len(pending)
    /\ pending[k].op = "cancelBooking" /\ pending[k].stage = "updateStatus"
    /\ bookings' = [bookings EXCEPT ![pending[k].id] = updateStatus(@, "cancelled")]
    /\ pending' = [pending EXCEPT ![k].stage = "save"]
    /\ UNCHANGED <<users, products, last, now, acks>>

\* cancelBooking from the assignment of cancellationReason to the response:
\* save() writes the field the handler modified on its document
cancelBookingSave(k) ==
    /\ k \in 1..Len(pending)
    /\ pending[k].op = "cancelBooking" /\ pending[k].stage = "save"
    /\ bookings' = [bookings EXCEPT ![pending[k].id].cancellationReason =
                       cancellationReasonOf(pending[k].caller, pending[k].reason)]
    /\ last' = Resp("cancelBooking", pending[k].caller, pending[k].id, 200, "OK",
                    <<pending[k].id>>)
    /\ pending' = Remove(pending, k)
    /\ UNCHANGED <<users, products, now, acks>>

\* completeBooking up to its status tests
completeBookingFind(caller, id) ==
    /\ Tick
    /\ UNCHANGED <<users, products, bookings, acks>>
    /\ IF ~authenticateToken(caller)
       THEN /\ last' = Resp("completeBooking", caller, id, 401, "Unauthenticated", <<>>)
            /\ UNCHANGED pending
       ELSE IF ~canComplete(caller)
       THEN /\ last' = Resp("completeBooking", caller, id, 403, "Forbidden", <<>>)
            /\ UNCHANGED pending
       ELSE IF findById(bookings, id) = "CastError"
       THEN /\ last' = Resp("completeBooking", caller, id, 500, "InternalError", <<>>)
            /\ UNCHANGED pending
       ELSE IF findById(bookings, id) = "null"
       THEN /\ last' = Resp("completeBooking", caller, id, 404, "NotFound", <<>>)
            /\ UNCHANGED pending
       ELSE IF completeConflict(bookings[id].status) # "none"
       THEN /\ last' = Resp("completeBooking", caller, id, 400,
                            completeConflict(bookings[id].status), <<>>)
            /\ UNCHANGED pending
       ELSE /\ Len(pending) < MaxInFlight
            /\ pending' = Append(pending,
                  [op |-> "completeBooking", caller |-> caller, id |-> id,
                   reason |-> Absent, stage |-> "updateStatus"])
            /\ UNCHANGED last

\* completeBooking from updateStatus('completed') to the response: the status
\* is the only field its document modified
completeBookingSave(k) ==
    /\ k \in 1..Len(pending)
    /\ pending[k].op = "completeBooking"
    /\ bookings' = [bookings EXCEPT ![pending[k].id] = updateStatus(@, "completed")]
    /\ last' = Resp("completeBooking", pending[k].caller, pending[k].id, 200, "OK",
                    <<pending[k].id>>)
    /\ pending' = Remove(pending, k)
    /\ UNCHANGED <<users, products, now, acks>>

BookingConcStep ==
    \/ \E c \in Callers : createProduct(c, PlainCreate, Files(Len(products) + 1, 0, 1))
    \/ \E c \in Callers, p \in ProductIdInputs : createBooking(c, p, TRUE)
    \/ \E c \in Callers, id \in BookingIdInputs :
          \E r \in ReasonsThatMatter(c, id) : cancelBookingFind(c, id, r)
    \/ \E k \in 1..MaxInFlight : cancelBookingUpdateStatus(k)
    \/ \E k \in 1..MaxInFlight : cancelBookingSave(k)
    \/ \E c \in Callers, id \in BookingIdInputs : completeBookingFind(c, id)
    \/ \E k \in 1..MaxInFlight : completeBookingSave(k)

SpecBookingsConc == Init /\ [][BookingConcStep]_vars

\* ------------------------------------------------------------------ claims
Terminal == {"cancelled", "completed"}
IsAdmin(c) == c \in 1..Len(users) /\ users[c].role = "admin"
IsActiveUser(c) == c \in 1..Len(users) /\ users[c].isActive
Exists(coll, id) == id \in 1..Len(coll)

C2_TerminalConflicts ==
    [][ LET c == last'.caller
            id == last'.target
        IN  /\ ( /\ last'.op = "cancelBooking"
                 /\ IsActiveUser(c) /\ Exists(bookings, id)
                 /\ (IsAdmin(c) \/ bookings[id].userId = c)
                 /\ bookings[id].status \in Terminal )
               => /\ last'.kind = IF bookings[id].status = "cancelled"
                                  THEN "AlreadyCancelled" ELSE "CannotCancelCompleted"
                  /\ last'.code \in 400..499
                  /\ bookings' = bookings
            /\ ( /\ last'.op = "completeBooking"
                 /\ IsActiveUser(c) /\ Exists(bookings, id) /\ IsAdmin(c)
                 /\ bookings[id].status \in Terminal )
               => /\ last'.kind = IF bookings[id].status = "completed"
                                  THEN "AlreadyCompleted" ELSE "CannotCompleteCancelled"
                  /\ last'.code \in 400..499
                  /\ bookings' = bookings ]_vars

C2_Witness ==
    /\ last.op = "cancelBooking" /\ last.kind = "CannotCancelCompleted"
    /\ Exists(bookings, last.target)
    /\ bookings[last.target].userId = last.caller
    /\ bookings[last.target].status = "completed"
    /\ bookings[last.target].cancellationReason = NoReason

\* C3: a status becomes cancelled only in a cancel request of the owner or an
\* admin, and completed only in a complete request of an admin; a cancel by
\* somebody else and a complete by a non-admin answer Forbidden and change nothing.
C3_WhoMayTransition ==
    [][ /\ \A i \in 1..Len(bookings) :
              bookings'[i].status # bookings[i].status =>
                 \/ /\ bookings'[i].status = "cancelled"
                    /\ last'.op = "cancelBooking" /\ last'.target = i
                    /\ (IsAdmin(last'.caller) \/ bookings[i].userId = last'.caller)
                 \/ /\ bookings'[i].status = "completed"
                    /\ last'.op = "completeBooking" /\ last'.target = i
                    /\ IsAdmin(last'.caller)
        /\ ( /\ last'.op = "cancelBooking"
             /\ IsActiveUser(last'.caller) /\ Exists(bookings, last'.target)
             /\ ~IsAdmin(last'.caller)
             /\ bookings[last'.target].userId # last'.caller )
           => last'.kind = "Forbidden" /\ last'.code = 403 /\ bookings' = bookings
        /\ ( /\ last'.op = "completeBooking"
             /\ IsActiveUser(last'.caller) /\ ~IsAdmin(last'.caller) )
           => last'.kind = "Forbidden" /\ last'.code = 403 /\ bookings' = bookings
      ]_vars

C3_Witness ==
    /\ last.op = "completeBooking" /\ last.kind = "Forbidden"
    /\ Exists(bookings, last.target)
    /\ bookings[last.target].userId = last.caller
    /\ bookings[last.target].status = "confirmed"

\* C4: a read never hands a non-admin caller somebody else's booking: the list
\* holds every booking for an admin and exactly the caller's own for a regular
\* user; get-by-id and by-coupon return the booking to its owner and to an admin
\* and answer Forbidden to anybody else.
C4_ReadVisibility ==
    LET c == last.caller
        own == {i \in 1..Len(bookings) : bookings[i].userId = c}
    IN  /\ (last.op \in {"getBookings", "getBookingById", "getByCoupon"} /\ ~IsAdmin(c))
           => Range(last.result) \subseteq own
        /\ (last.op = "getBookings" /\ IsActiveUser(c))
           => /\ last.code = 200
              /\ Range(last.result) = IF IsAdmin(c) THEN 1..Len(bookings) ELSE own
        /\ ( /\ last.op \in {"getBookingById", "getByCoupon"}
             /\ IsActiveUser(c) /\ Exists(bookings, last.target) )
           => IF IsAdmin(c) \/ last.target \in own
              THEN last.code = 200 /\ last.result = <<last.target>>
              ELSE last.kind = "Forbidden" /\ last.code = 403 /\ last.result = <<>>

C4_Witness ==
    /\ last.op = "getBookings" /\ last.code = 200 /\ ~IsAdmin(last.caller)
    /\ Len(last.result) = 1
    /\ Len(bookings) = 2

\* C5: a booking comes into being only in a createBooking request whose product
\* exists and is Available at that moment, with status confirmed and the caller
\* as userId; for a missing product or one that is Out of Stock or Discontinued
\* the request fails and no booking is created.
C5_CreateNeedsAvailable ==
    [][ /\ Len(bookings') > Len(bookings)
           => /\ Len(bookings') = Len(bookings) + 1
              /\ last'.op = "createBooking" /\ last'.code = 201
              /\ LET b == bookings'[Len(bookings')] IN
                    /\ b.productId = last'.target /\ Exists(products, b.productId)
                    /\ products[b.productId].availability = "Available"
                    /\ b.status = "confirmed"
                    /\ b.userId = last'.caller
        /\ ( /\ last'.op = "createBooking"
             /\ \/ ~Exists(products, last'.target)
                \/ products[last'.target].availability # "Available" )
           => last'.code >= 400 /\ bookings' = bookings ]_vars

C5_Witness ==
    /\ last.op = "createBooking" /\ last.code = 201
    /\ Exists(products, last.target)
    /\ bookings[Len(bookings)].status = "confirmed"
    /\ bookings[Len(bookings)].userId = last.caller

\* C8 (as claimed): an accepted admin update of an existing user whose body
\* carries an email or a phone that another user holds answers Conflict and
\* leaves the users unchanged, also when both are supplied and only one is held
\* or two different users hold them.
C8_ConflictOnAnyHeldValue ==
    [][ LET c == last'.caller
            id == last'.target
        IN  (last'.op = "updateUser" /\ IsActiveUser(c) /\ IsAdmin(c) /\ Exists(users, id))
            => \A b \in UserBodies :
                  ( /\ updateUser(c, id, b, TRUE)
                    /\ ~(c = id /\ b.role = "user")
                    /\ \E j \in 1..Len(users) :
                          j # id /\ (users[j].email = b.email \/ users[j].phone = b.phone) )
                  => last'.kind = "Conflict" /\ users' = users ]_vars

\* C9 (as claimed): updateUser never changes the stored password of its target,
\* whatever keys the body carries.
C9_PasswordNotWritable ==
    [][ (last'.op = "updateUser" /\ Exists(users, last'.target))
        => users'[last'.target].password = users[last'.target].password ]_vars

\* the update bodies that ask for the role user
DemotingBodies == {b : b \in {x \in UserBodies : x.role = "user"}}

UsersUnique ==
    \A i, j \in 1..Len(users) :
        i # j => users[i].email # users[j].email /\ users[i].phone # users[j].phone

C11_AdminKeepsOwnAccount ==
    [][ LET c == last'.caller IN
        ( /\ last'.op \in {"updateUser", "deleteUser"} /\ last'.target = c
          /\ IsActiveUser(c) /\ IsAdmin(c) )
        => users'[c].role = "admin" /\ users'[c].isActive ]_vars

\* what the reads answer about the products that are not active
C12_Reads ==
    /\ last.op = "listProducts" =>
          \A id \in 1..Len(products) :
             ~products[id].isActive =>
                /\ last.result.query.isActive = Absent => id \notin Range(last.result.items)
                /\ ( /\ last.result.query.isActive = "false"
                     /\ last.result.query.availability \in {Absent, products[id].availability} )
                   => id \in Range(last.result.items)
    /\ (last.op = "getProduct" /\ Exists(products, last.target)) =>
          last.code = 200 /\ last.result = <<products[last.target]>>

\* C12: an admin's deleteProduct of an existing product leaves it with
\* isActive = FALSE and availability Discontinued; a product that is not active
\* is in no listProducts answer whose query has no isActive parameter, is in
\* the answer to a query with isActive=false whose other filters it matches,
\* and is still returned by getProduct.
C12_SoftDeleteVisibility ==
    [][ /\ (last'.op = "deleteProduct" /\ last'.code = 200) =>
              /\ ~products'[last'.target].isActive
              /\ products'[last'.target].availability = "Discontinued"
        /\ ( /\ last'.op = "deleteProduct" /\ IsActiveUser(last'.caller)
             /\ IsAdmin(last'.caller) /\ Exists(products, last'.target) )
           => last'.code = 200
        /\ C12_Reads' ]_vars

C12_Witness ==
    /\ last.op = "listProducts" /\ last.result.query.isActive = "false"
    /\ \E id \in Range(last.result.items) :
          ~products[id].isActive /\ products[id].availability = "Discontinued"

\* C13 (as claimed): in every reachable state each product's images and
\* imagePublicIds have the same length and images[i] is the URL of the stored
\* object that imagePublicIds[i] names.
C13_ImagesAligned ==
    \A id \in 1..Len(products) :
       /\ Len(products[id].images) = Len(products[id].imagePublicIds)
       /\ \A i \in 1..Len(products[id].images) :
             products[id].images[i] = UrlOf(products[id].imagePublicIds[i])

\* C14 (as claimed): createProduct by an admin whose input breaks a declared
\* bound creates no product and answers a 4xx ValidationError, and MissingImages
\* when no image is supplied.
C14_CreateRejectsInvalid ==
    [][ ( /\ last'.op = "createProduct"
          /\ IsActiveUser(last'.caller) /\ IsAdmin(last'.caller) )
        => \A b \in CreateBodies, n \in {0, 1} :
              ( /\ createProduct(last'.caller, b, Files(Len(products) + 1, 0, n))
                /\ (~createValidators(b) \/ n = 0) )
              => /\ products' = products
                 /\ last'.code \in 400..499
                 /\ last'.kind \in (IF createValidators(b) THEN {} ELSE {"ValidationError"})
                                   \cup (IF n = 0 THEN {"MissingImages"} ELSE {})
      ]_vars

\* C20 (as claimed): createProduct and updateProduct store for a structured
\* list of features or tags the same value as for its comma-joined string.
C20_ShapesNormalizeAlike ==
    [][ LET c == last'.caller
            id == last'.target
        IN  \A l \in FieldLists :
              /\ ( /\ last'.op = "createProduct" /\ last'.code = 201
                   /\ createProduct(c, [PlainCreate EXCEPT !.features = AsArray(l)],
                                    Files(Len(products) + 1, 0, 1)) )
                 => products'[id].features = createFeatures(AsString(join(l)))
              /\ ( /\ last'.op = "createProduct" /\ last'.code = 201
                   /\ createProduct(c, [PlainCreate EXCEPT !.tags = AsArray(l)],
                                    Files(Len(products) + 1, 0, 1)) )
                 => products'[id].tags = createTags(AsString(join(l)))
              /\ ( /\ last'.op = "updateProduct" /\ last'.code = 200
                   /\ updateProduct(c, id, [PlainUpdate EXCEPT !.features = AsArray(l)], <<>>) )
                 => products'[id].features = updateFeatures(AsString(join(l))).value
              /\ ( /\ last'.op = "updateProduct" /\ last'.code = 200
                   /\ updateProduct(c, id, [PlainUpdate EXCEPT !.tags = AsArray(l)], <<>>) )
                 => products'[id].tags = updateTags(AsString(join(l))).value
      ]_vars

\* the page a request for (page, limit) is to get out of a sorted list
C15_PageOf(sorted, page, limit) ==
    LET total == Len(sorted)
        first == (page - 1) * limit + 1
        end == IF page * limit < total THEN page * limit ELSE total
    IN  [i \in 1..(IF end >= first THEN end - first + 1 ELSE 0) |-> sorted[first + i - 1]]

\* ceil(total / limit) as the least number of pages of size limit that hold total items
C15_Pages(total, limit) == CHOOSE n \in 0..total : n * limit >= total /\ \A m \in 0..(n - 1) : m * limit < total

C15_Expected(sorted, page, limit) ==
    /\ last.result.items = C15_PageOf(sorted, page, limit)
    /\ last.result.pagination.currentPage = page
    /\ last.result.pagination.totalPages = C15_Pages(Len(sorted), limit)
    /\ last.result.pagination.hasPrevPage = (page > 1)
    /\ last.result.pagination.hasNextPage = (page * limit < Len(sorted))

\* C15: for page >= 1 and limit >= 1, a 200 answer of listProducts or getUsers
\* holds the items at positions (page-1)*limit+1 .. min(page*limit, total) of
\* the sorted filtered set, currentPage = page, totalPages = ceil(total/limit),
\* hasPrevPage = (page > 1) and hasNextPage = (page*limit < total).
C15_Pagination ==
    /\ (last.op = "listProducts" /\ last.code = 200) =>
          C15_Expected(SelectSeq(newestFirst(Len(products)),
                          LAMBDA id : matchProduct(products[id], buildFilter(last.result.query))),
                       parseIntOr(last.result.query.page, 1),
                       parseIntOr(last.result.query.limit, DefaultProductsLimit))
    /\ (last.op = "getUsers" /\ last.code = 200) =>
          C15_Expected(SelectSeq(newestFirst(Len(users)),
                          LAMBDA id : matchUser(users[id], last.result.query)),
                       parseIntOr(last.result.query.page, 1),
                       parseIntOr(last.result.query.limit, DefaultUsersLimit))

\* page 2 of 3 users two at a time: the third user, no next page, a previous one
C15_Witness ==
    /\ last.op = "getUsers" /\ last.code = 200
    /\ last.result.query.page = <<2>> /\ last.result.query.limit = <<2>>
    /\ last.result.pagination.total = 3
    /\ Len(last.result.items) = 1
    /\ ~last.result.pagination.hasNextPage /\ last.result.pagination.hasPrevPage
    /\ last.result.pagination.totalPages = 2

\* C16 (as claimed): the page size handed to the query is within 1..100 for
\* listProducts and 1..50 for getUsers, and no answer holds more items than that.
C16_PageSizeCapped ==
    /\ last.op = "listProducts" =>
          /\ last.result.pageSize \in 1..ProductsLimitMax
          /\ Len(last.result.items) <= ProductsLimitMax
    /\ (last.op = "getUsers" /\ last.code = 200) =>
          /\ last.result.pageSize \in 1..UsersLimitMax
          /\ Len(last.result.items) <= UsersLimitMax

AdminOnlyOps ==
    {"getUsers", "getUserById", "updateUser", "deleteUser", "getStatsOverview",
     "createProduct", "updateProduct", "deleteProduct"}

\* C17: a users-service request or a product write from a caller who is not
\* an authenticated active user is answered 401 Unauthenticated, from one who
\* is but is no admin 403 Forbidden, and no user or product record changes.
C17_AdminGate ==
    [][ LET c == last'.caller IN
        last'.op \in AdminOnlyOps =>
           /\ ~IsActiveUser(c) =>
                 /\ last'.code = 401 /\ last'.kind = "Unauthenticated"
                 /\ users' = users /\ products' = products
           /\ (IsActiveUser(c) /\ ~IsAdmin(c)) =>
                 /\ last'.code = 403 /\ last'.kind = "Forbidden"
                 /\ users' = users /\ products' = products
      ]_vars

\* a stored user who is no active admin has been turned away
C17_Witness ==
    /\ last.op \in {"getUserById", "deleteProduct"}
    /\ last.kind \in {"Forbidden", "Unauthenticated"}
    /\ last.caller \in 1..Len(users)
    /\ \/ ~users[last.caller].isActive
       \/ users[last.caller].role = "user"

\* C18: while a user's isActive is FALSE, a login or admin login that finds
\* that user answers 401, issues no token and leaves lastLogin (and every user
\* record) as it was, whatever password it carries; once an admin update has
\* set isActive back, the same login with the right password succeeds.
C18_DeactivatedCannotLogin ==
    [][ \A e \in LoginEmails, p \in LoginPasswords :
          /\ ( /\ login(e, p, TRUE) \/ adminLogin(e, p, TRUE)
               /\ Exists(users, last'.target)
               /\ ~users[last'.target].isActive )
             =>    /\ last'.code = 401
                   /\ last'.result = <<>>
                   /\ users' = users
          /\ ( /\ login(e, p, TRUE)
               /\ \E u \in 1..Len(users) :
                     users[u].email = e /\ users[u].isActive /\ users[u].password = Hash(p) )
             => last'.code = 200
      ]_vars

\* the correct password of a deactivated account has been turned down
C18_Witness ==
    /\ last.op = "login" /\ last.kind = "Deactivated" /\ last.code = 401
    /\ Exists(users, last.target)
    /\ ~users[last.target].isActive
    /\ users[last.target].lastLogin = 0

C22_CancelCompleteExclusive ==
    [][ /\ ~ /\ last' # last
              /\ last.code = 200 /\ last'.code = 200
              /\ last.target = last'.target
              /\ {last.op, last'.op} = {"cancelBooking", "completeBooking"}
        /\ pending' = <<>> =>
              /\ (last'.op = "cancelBooking" /\ last'.code = 200)
                    => bookings'[last'.target].status = "cancelled"
              /\ (last'.op = "completeBooking" /\ last'.code = 200)
                    => bookings'[last'.target].status = "completed"
              /\ \A i \in 1..Len(bookings') :
                    bookings'[i].status = "completed"
                        => bookings'[i].cancellationReason = NoReason
      ]_vars

\* C23: no booking is created against a soft-deleted or otherwise inactive
\* product: whenever createBooking answers 201 the product it names has
\* isActive = true at that moment, whatever createProduct, updateProduct and
\* deleteProduct requests came before
C23_BookedProductIsActive ==
    [][ (last'.op = "createBooking" /\ last'.code = 201)
           => /\ Exists(products, last'.target)
              /\ products[last'.target].isActive = TRUE
      ]_vars

====
